---- MODULE Spec2Model ----
(***************************************************************************)
(* A model of main.py: the FastAPI service that reads an uploaded PDF,     *)
(* extracts its text, sends it to the Gemini model and returns the JSON    *)
(* the model answered.                                                     *)
(*                                                                         *)
(* Text is a sequence of one-character strings, so that str.strip,         *)
(* str.replace and json.loads are computed character by character.         *)
(***************************************************************************)
EXTENDS Integers, Sequences, FiniteSets, TLC

\* ------------------------------------------------------------------ bounds

\* Number of request slots the server handles concurrently.
NumReqs == 2
\* Largest number of pages of an uploaded PDF.
MaxPages == 3
\* Largest number of pieces an AI response is assembled from (fence study).
MaxPieces == 4

\* ------------------------------------------------------------------ text

\* Characters str.strip() removes (the ones in the modelled alphabet).
PyWhitespace == {" ", "\n", "\t", "\r", "\f"}

\* Characters json.loads skips between tokens.
JsonWhitespace == {" ", "\n", "\t", "\r"}

Digits == <<"0", "1", "2", "3", "4", "5", "6", "7", "8", "9">>

DigitSet == {Digits[i] : i \in 1..10}

DigitVal(c) == (CHOOSE i \in 1..10 : Digits[i] = c) - 1

\* The element of a one-element set.  Only({e(x) : x \in {val}}) is e with the
\* local variable x holding the value of val, computed once.
Only(S) == CHOOSE y \in S : TRUE

\* s[from..] (1-based); the empty text past the end.
Drop(s, n) == SubSeq(s, n + 1, Len(s))

Take(s, n) == SubSeq(s, 1, n)

StartsWith(s, p) == Len(s) >= Len(p) /\ Take(s, Len(p)) = p

RECURSIVE LStrip(_)
LStrip(s) ==
    IF s # <<>> /\ Head(s) \in PyWhitespace THEN LStrip(Tail(s)) ELSE s

RECURSIVE RStrip(_)
RStrip(s) ==
    IF s # <<>> /\ s[Len(s)] \in PyWhitespace
    THEN RStrip(Take(s, Len(s) - 1))
    ELSE s

\* str.strip()
Strip(s) == RStrip(LStrip(s))

\* str.replace(old, "", 1): only the first occurrence is removed.
RECURSIVE ReplaceFirst(_, _)
ReplaceFirst(s, old) ==
    IF Len(s) < Len(old) THEN s
    ELSE IF StartsWith(s, old) THEN Drop(s, Len(old))
    ELSE <<Head(s)>> \o ReplaceFirst(Tail(s), old)

\* str.replace(old, ""), old non-empty: one left-to-right scan, occurrences
\* taken without overlap, the text after a removed occurrence scanned on.
RECURSIVE Replace(_, _)
Replace(s, old) ==
    IF Len(s) < Len(old) THEN s
    ELSE IF StartsWith(s, old) THEN Replace(Drop(s, Len(old)), old)
    ELSE <<Head(s)>> \o Replace(Tail(s), old)

\* The grave accent U+0060, which a TLA+ string cannot hold.
Backtick == "U+0060"

\* The three-backtick code fence.
Fence == <<Backtick, Backtick, Backtick>>

\* The fence with its language tag, as in the opening line of a json block.
FenceJson == Fence \o <<"j", "s", "o", "n">>

\* s contains pat as a substring.
Contains(s, pat) ==
    \E i \in 0..(Len(s) - Len(pat)) : SubSeq(s, i + 1, i + Len(pat)) = pat

\* The fence removal alone: .replace(FenceJson, '').replace(Fence, '')
RemoveFences(s) == Replace(Replace(s, FenceJson), Fence)

\* The post-processing with the tagged fence alone removed.
json_string_tagged(text) == Replace(Strip(text), FenceJson)

\* json_string = response.text.strip().replace(FenceJson, '').replace(Fence, '')
json_string(text) == RemoveFences(Strip(text))

\* ------------------------------------------------------------------ JSON

\* The values json.loads produces, as records tagged by "kind".  A float is
\* kept as the decimal m * 10^e it was written as (m without trailing zeros),
\* which is exact for the short numerals of the modelled responses.
JNull == [kind |-> "null"]

JBool(b) == [kind |-> "bool", b |-> b]

JInt(neg, n) == [kind |-> "int", neg |-> neg /\ n # 0, n |-> n]

JFloat(neg, m, e) == [kind |-> "float", neg |-> neg, m |-> m, e |-> e]

\* float('inf') / float('-inf'): what Python makes of Infinity and of a
\* numeral beyond the range of a double.
JInf(neg) == [kind |-> "inf", neg |-> neg]

JNaN == [kind |-> "nan"]

JStr(s) == [kind |-> "str", s |-> s]

JArray(items) == [kind |-> "array", items |-> items]

\* members: a sequence of <<key, value>> with distinct keys, in dict order.
JObject(members) == [kind |-> "object", members |-> members]

\* What a scanning step returns: ok, the value, and the text left after it.
Fail == [ok |-> FALSE, val |-> JNull, rest |-> <<>>]

Got(v, rest) == [ok |-> TRUE, val |-> v, rest |-> rest]

RECURSIVE SkipWs(_)
SkipWs(s) ==
    IF s # <<>> /\ Head(s) \in JsonWhitespace THEN SkipWs(Tail(s)) ELSE s

\* Length of the longest prefix of s made of digits.
RECURSIVE CountDigits(_)
CountDigits(s) ==
    IF s # <<>> /\ Head(s) \in DigitSet THEN 1 + CountDigits(Tail(s)) ELSE 0

RECURSIVE DigitsToNat(_)
DigitsToNat(ds) ==
    IF ds = <<>> THEN 0
    ELSE 10 * DigitsToNat(Take(ds, Len(ds) - 1)) + DigitVal(ds[Len(ds)])

RECURSIVE NatToDigits(_)
NatToDigits(n) ==
    IF n < 10 THEN <<Digits[n + 1]>>
    ELSE NatToDigits(n \div 10) \o <<Digits[(n % 10) + 1]>>

\* m * 10^e with the trailing zeros of m moved into e.
RECURSIVE Normalise(_, _)
Normalise(m, e) ==
    IF m = 0 THEN <<0, 0>>
    ELSE IF m % 10 = 0 THEN Normalise(m \div 10, e + 1)
    ELSE <<m, e>>

\* float(numeral): a double holds decimal exponents -324..308; beyond them
\* the numeral becomes inf, or 0.0.
MakeFloat(neg, mant, exp) ==
    Only({
        LET m == n[1]
            e == n[2]
            sci == Len(NatToDigits(m)) + e - 1
        IN  IF m = 0 THEN JFloat(neg, 0, 0)
            ELSE IF sci > 308 THEN JInf(neg)
            ELSE IF sci < -324 THEN JFloat(neg, 0, 0)
            ELSE JFloat(neg, m, e)
    : n \in {Normalise(mant, exp)}})

\* json.scanner NUMBER_RE: (-?(?:0|[1-9][0-9]*))(\.[0-9]+)?([eE][-+]?[0-9]+)?
\* matched at the start of s; the optional groups match greedily or not at all.
ScanNumber(s) ==
    LET neg == s # <<>> /\ Head(s) = "-"
        s1 == IF neg THEN Tail(s) ELSE s
    IN  IF s1 = <<>> \/ Head(s1) \notin DigitSet THEN Fail
        ELSE
        Only({
        Only({
        Only({
        Only({
        LET hasE == s3 # <<>> /\ Head(s3) \in {"e", "E"}
            signed == hasE /\ Len(s3) >= 2 /\ s3[2] \in {"+", "-"}
        IN
        Only({
        Only({
        LET expVal == DigitsToNat(Take(s4, expLen))
            exp == IF signed /\ s3[2] = "-" THEN 0 - expVal ELSE expVal
            rest == IF expLen > 0 THEN Drop(s4, expLen) ELSE s3
            mant == DigitsToNat(Take(s1, intLen) \o SubSeq(s2, 2, fracLen + 1))
        IN  IF fracLen = 0 /\ expLen = 0
            THEN Got(JInt(neg, DigitsToNat(Take(s1, intLen))), rest)
            ELSE Got(MakeFloat(neg, mant, exp - fracLen), rest)
    : expLen \in {IF hasE THEN CountDigits(s4) ELSE 0}})
    : s4 \in {IF signed THEN Drop(s3, 2) ELSE IF hasE THEN Drop(s3, 1) ELSE s3}})
    : s3 \in {IF fracLen > 0 THEN Drop(s2, fracLen + 1) ELSE s2}})
    : fracLen \in {IF Len(s2) >= 2 /\ s2[1] = "." /\ s2[2] \in DigitSet THEN CountDigits(Tail(s2)) ELSE 0}})
    : s2 \in {Drop(s1, intLen)}})
    : intLen \in {IF Head(s1) = "0" THEN 1 ELSE CountDigits(s1)}})

\* py_scanstring (strict) after the opening quote: the characters up to the
\* closing quote; a control character or an unterminated string is an error.
\* Escape sequences are outside the modelled alphabet.
RECURSIVE ScanString(_, _)
ScanString(s, acc) ==
    IF s = <<>> THEN Fail
    ELSE IF Head(s) = "\"" THEN Got(JStr(acc), Tail(s))
    ELSE IF Head(s) \in {"\n", "\t", "\r", "\f", "\\"} THEN Fail
    ELSE ScanString(Tail(s), Append(acc, Head(s)))

\* dict(pairs): a repeated key keeps its first position and its last value.
RECURSIVE PutMember(_, _, _)
PutMember(members, key, val) ==
    IF members = <<>> THEN <<<<key, val>>>>
    ELSE IF Head(members)[1] = key THEN <<<<key, val>>>> \o Tail(members)
    ELSE <<Head(members)>> \o PutMember(Tail(members), key, val)

Lit_null == <<"n", "u", "l", "l">>
Lit_true == <<"t", "r", "u", "e">>
Lit_false == <<"f", "a", "l", "s", "e">>
Lit_NaN == <<"N", "a", "N">>
Lit_Infinity == <<"I", "n", "f", "i", "n", "i", "t", "y">>

RECURSIVE ScanOnce(_, _)
RECURSIVE ScanMembers(_, _, _)
RECURSIVE ScanItems(_, _, _)

\* json.scanner.py_make_scanner _scan_once: one value at the start of s.
\* ext: the constants NaN, Infinity and -Infinity are accepted, as Python's
\* decoder does by default although RFC 8259 has no such tokens.
ScanOnce(s, ext) ==
    IF s = <<>> THEN Fail
    ELSE IF Head(s) = "\"" THEN ScanString(Tail(s), <<>>)
    ELSE IF Head(s) = "{" THEN
        Only({
            IF t # <<>> /\ Head(t) = "}" THEN Got(JObject(<<>>), Tail(t))
            ELSE ScanMembers(t, <<>>, ext)
    : t \in {SkipWs(Tail(s))}})
    ELSE IF Head(s) = "[" THEN
        Only({
            IF t # <<>> /\ Head(t) = "]" THEN Got(JArray(<<>>), Tail(t))
            ELSE ScanItems(t, <<>>, ext)
    : t \in {SkipWs(Tail(s))}})
    ELSE IF StartsWith(s, Lit_null) THEN Got(JNull, Drop(s, 4))
    ELSE IF StartsWith(s, Lit_true) THEN Got(JBool(TRUE), Drop(s, 4))
    ELSE IF StartsWith(s, Lit_false) THEN Got(JBool(FALSE), Drop(s, 5))
    ELSE Only({
        IF n.ok THEN n
        ELSE IF ext /\ StartsWith(s, Lit_NaN) THEN Got(JNaN, Drop(s, 3))
        ELSE IF ext /\ StartsWith(s, Lit_Infinity) THEN Got(JInf(FALSE), Drop(s, 8))
        ELSE IF ext /\ StartsWith(s, <<"-">> \o Lit_Infinity)
        THEN Got(JInf(TRUE), Drop(s, 9))
        ELSE Fail
    : n \in {ScanNumber(s)}})

\* json.decoder.JSONObject from the first key on: s starts at the key's quote.
ScanMembers(s, members, ext) ==
    IF s = <<>> \/ Head(s) # "\"" THEN Fail
    ELSE Only({
        IF ~k.ok THEN Fail
        ELSE Only({
            IF t = <<>> \/ Head(t) # ":" THEN Fail
            ELSE Only({
                IF ~v.ok THEN Fail
                ELSE Only({
                    IF u = <<>> THEN Fail
                    ELSE IF Head(u) = "}"
                    THEN Got(JObject(PutMember(members, k.val.s, v.val)), Tail(u))
                    ELSE IF Head(u) = ","
                    THEN ScanMembers(SkipWs(Tail(u)),
                                     PutMember(members, k.val.s, v.val), ext)
                    ELSE Fail
    : u \in {SkipWs(v.rest)}})
    : v \in {ScanOnce(SkipWs(Tail(t)), ext)}})
    : t \in {SkipWs(k.rest)}})
    : k \in {ScanString(Tail(s), <<>>)}})

\* json.decoder.JSONArray from the first item on.
ScanItems(s, items, ext) ==
    Only({
        IF ~v.ok THEN Fail
        ELSE Only({
            IF u = <<>> THEN Fail
            ELSE IF Head(u) = "]" THEN Got(JArray(Append(items, v.val)), Tail(u))
            ELSE IF Head(u) = ","
            THEN ScanItems(SkipWs(Tail(u)), Append(items, v.val), ext)
            ELSE Fail
    : u \in {SkipWs(v.rest)}})
    : v \in {ScanOnce(s, ext)}})

\* JSONDecoder.decode: leading whitespace, one value, trailing whitespace, the
\* end.  ok = FALSE stands for json.JSONDecodeError.
Decode(s, ext) ==
    Only({
        IF r.ok /\ SkipWs(r.rest) = <<>> THEN Got(r.val, <<>>) ELSE Fail
    : r \in {ScanOnce(SkipWs(s), ext)}})

json_loads(s) == Decode(s, TRUE)

\* The value holds inf or nan somewhere: json.dumps(allow_nan=False) raises
\* ValueError on it.
RECURSIVE NonFinite(_)
NonFinite(v) ==
    CASE v.kind \in {"inf", "nan"} -> TRUE
      [] v.kind = "array" -> \E i \in 1..Len(v.items) : NonFinite(v.items[i])
      [] v.kind = "object" -> \E i \in 1..Len(v.members) : NonFinite(v.members[i][2])
      [] OTHER -> FALSE

Zeros(k) == [i \in 1..k |-> "0"]

Sign(neg) == IF neg THEN <<"-">> ELSE <<>>

\* float.__repr__: the digits of m with the point at decpt = len + e; fixed
\* notation for -4 < decpt <= 16, exponent notation otherwise.
FloatRepr(neg, m, e) ==
    LET ds == NatToDigits(m)
        D == Len(ds)
        decpt == D + e
        x == decpt - 1
        ax == IF x < 0 THEN 0 - x ELSE x
    IN  Sign(neg) \o
        (IF m = 0 THEN <<"0", ".", "0">>
         ELSE IF decpt > 16 \/ decpt <= -4
         THEN <<ds[1]>> \o (IF D > 1 THEN <<".">> \o Tail(ds) ELSE <<>>)
              \o <<"e", IF x < 0 THEN "-" ELSE "+">>
              \o (IF ax < 10 THEN <<"0">> ELSE <<>>) \o NatToDigits(ax)
         ELSE IF decpt <= 0 THEN <<"0", ".">> \o Zeros(0 - decpt) \o ds
         ELSE IF decpt < D THEN Take(ds, decpt) \o <<".">> \o Drop(ds, decpt)
         ELSE ds \o Zeros(decpt - D) \o <<".", "0">>)

\* json.dumps(v, ensure_ascii=False, allow_nan=False, separators=(",", ":"))
\* for a value without inf and nan.
RECURSIVE json_dumps(_)
RECURSIVE DumpMembers(_)
RECURSIVE DumpItems(_)
json_dumps(v) ==
    CASE v.kind = "null" -> Lit_null
      [] v.kind = "bool" -> IF v.b THEN Lit_true ELSE Lit_false
      [] v.kind = "int" -> Sign(v.neg) \o NatToDigits(v.n)
      [] v.kind = "float" -> FloatRepr(v.neg, v.m, v.e)
      [] v.kind = "str" -> <<"\"">> \o v.s \o <<"\"">>
      [] v.kind = "array" -> <<"[">> \o DumpItems(v.items) \o <<"]">>
      [] v.kind = "object" -> <<"{">> \o DumpMembers(v.members) \o <<"}">>

DumpMembers(ms) ==
    IF ms = <<>> THEN <<>>
    ELSE <<"\"">> \o ms[1][1] \o <<"\"", ":">> \o json_dumps(ms[1][2])
         \o (IF Len(ms) > 1 THEN <<",">> \o DumpMembers(Tail(ms)) ELSE <<>>)

DumpItems(is) ==
    IF is = <<>> THEN <<>>
    ELSE json_dumps(is[1])
         \o (IF Len(is) > 1 THEN <<",">> \o DumpItems(Tail(is)) ELSE <<>>)

\* ------------------------------------------------------------------ startup

\* An environment entry: unset (os.getenv gives None), or set to val.
Unset == [set |-> FALSE, val |-> ""]

SetTo(v) == [set |-> TRUE, val |-> v]

KeyValues == {Unset, SetTo(""), SetTo("key")}

\* load_dotenv(): the .env entry is taken only when the process environment
\* has none (override=False).
load_dotenv(environ, dotenv) == IF environ.set THEN environ ELSE dotenv

\* `not GEMINI_API_KEY` with the None-only reading: an empty key passes.
IsNone(key) == ~key.set

\* `not GEMINI_API_KEY`: None and the empty string are both falsy.
NotKey(key) == ~key.set \/ key.val = ""

\* ------------------------------------------------------------------ PDF text

\* page.extract_text(): a text, or nothing (none) for a page without a layer.
NoText == [none |-> TRUE, text |-> <<>>]

PageOf(text) == [none |-> FALSE, text |-> text]

\* An uploaded file: a well-formed PDF with its pages, or bytes PdfReader
\* rejects with the error err.
Pdf(pages) == [wellformed |-> TRUE, pages |-> pages, err |-> ""]

Malformed(err) == [wellformed |-> FALSE, pages |-> <<>>, err |-> err]

\* Exceptions: HTTPException carries status_code and detail, any other one its
\* message (in detail).
Exc(type, msg) == [type |-> type, status_code |-> 0, detail |-> msg]

HTTPException(status_code, detail) ==
    [type |-> "HTTPException", status_code |-> status_code, detail |-> detail]

NoExc == Exc("", "")

\* str(e): starlette's HTTPException.__str__ is "{status_code}: {detail}";
\* the other exceptions print their message.
str(e) ==
    IF e.type = "HTTPException"
    THEN ToString(e.status_code) \o ": " \o e.detail
    ELSE e.detail

\* `page.extract_text() or ""`
TextOr(page) == IF page.none THEN <<>> ELSE page.text

\* The loop of extract_text_from_pdf with the page text put in front.
RECURSIVE ConcatReversed(_, _)
ConcatReversed(pages, text) ==
    IF pages = <<>> THEN text
    ELSE ConcatReversed(Tail(pages), TextOr(Head(pages)) \o text)

\* for page in reader.pages: text += page.extract_text() or ""
RECURSIVE ConcatPages(_, _)
ConcatPages(pages, text) ==
    IF pages = <<>> THEN text
    ELSE ConcatPages(Tail(pages), text \o TextOr(Head(pages)))

\* extract_text_from_pdf: PdfReader raises on a malformed file, otherwise the
\* loop runs from text = "".
extract_text_from_pdf(file) ==
    IF ~file.wellformed
    THEN [raised |-> TRUE, exc |-> Exc("PdfReadError", file.err), text |-> <<>>]
    ELSE [raised |-> FALSE, exc |-> NoExc, text |-> ConcatPages(file.pages, <<>>)]

\* ------------------------------------------------------------------ handler

NoTextDetail == "Could not extract text from the PDF file."

ParseDetail == "Failed to parse JSON from Gemini's response. The AI might not have returned a valid JSON object."

Disposition == "attachment; filename=extracted_data.json"

NanDetail == "Out of range float values are not JSON compliant"

\* What the client receives.  An error response (FastAPI's handler for a
\* raised HTTPException) carries the detail; a success carries the body.
ErrorResponse(e) ==
    [status |-> e.status_code, detail |-> e.detail, body |-> <<>>, disposition |-> ""]

NoResponse == [status |-> 0, detail |-> "", body |-> <<>>, disposition |-> ""]

\* The handler's outcome: the response and the exception `except Exception`
\* caught on the way (NoExc if none).
Outcome(resp, caught) == [resp |-> resp, caught |-> caught]

\* The except clause with a fixed message in place of str(e).
HandleExceptionFixed(e) ==
    Outcome(ErrorResponse(HTTPException(500, "Internal Server Error")), e)

\* except Exception as e: raise HTTPException(status_code=500, detail=str(e))
HandleException(e) == Outcome(ErrorResponse(HTTPException(500, str(e))), e)

\* JSONResponse(content=extracted_data, media_type=..., headers=...): the body
\* is rendered in the constructor, which raises ValueError on inf and nan.
JSONResponse(content) ==
    IF NonFinite(content)
    THEN HandleException(Exc("ValueError", NanDetail))
    ELSE Outcome([status |-> 200, detail |-> "", body |-> json_dumps(content),
                  disposition |-> Disposition], NoExc)

\* full_prompt = f"{PROMPT}\n\nDocument Text:\n{extracted_text}"
full_prompt(extracted_text) ==
    [prompt |-> "PROMPT", sep |-> "\n\nDocument Text:\n", text |-> extracted_text]

\* Lines 126-139, up to the call of model.generate_content: call says whether
\* the call is made, and with which prompt; otherwise out is the outcome.
\* The HTTPException(400) is raised inside the try block.
BeforeGenerate(file) ==
    LET x == extract_text_from_pdf(file)
    IN  IF x.raised
        THEN [call |-> FALSE, prompt |-> full_prompt(<<>>), out |-> HandleException(x.exc)]
        ELSE IF x.text = <<>>
        THEN [call |-> FALSE, prompt |-> full_prompt(<<>>),
              out |-> HandleException(HTTPException(400, NoTextDetail))]
        ELSE [call |-> TRUE, prompt |-> full_prompt(x.text),
              out |-> Outcome(NoResponse, NoExc)]

\* What model.generate_content does: it raises, or it returns a response
\* whose .text raises (a blocked answer), or one whose .text is a text.
AiRaises(msg) == [kind |-> "raises", msg |-> msg, text |-> <<>>]

AiBlocked(msg) == [kind |-> "blocked", msg |-> msg, text |-> <<>>]

AiText(text) == [kind |-> "text", msg |-> "", text |-> text]

\* Lines 139-158, from the return of model.generate_content on.  The
\* HTTPException(500) of the parse failure is raised inside the outer try.
AfterGenerate(answer) ==
    IF answer.kind = "raises" THEN HandleException(Exc("GoogleAPIError", answer.msg))
    ELSE IF answer.kind = "blocked" THEN HandleException(Exc("ValueError", answer.msg))
    ELSE
    Only({
        IF ~extracted_data.ok
        THEN HandleException(HTTPException(500, ParseDetail))
        ELSE JSONResponse(extracted_data.val)
    : extracted_data \in {json_loads(json_string(answer.text))}})

\* ------------------------------------------------------------------ inputs

Reqs == 1..NumReqs

\* The event loop runs no handler.
Free == 0

\* The uploads a client sends: bytes that are no PDF, a PDF without pages, a
\* scan without a text layer, and a PDF with text on its first and last page.
Uploads ==
    { Malformed("EOF marker not found"),
      Pdf(<<>>),
      Pdf(<<NoText, PageOf(<<>>)>>),
      Pdf(<<PageOf(<<"a">>), NoText, PageOf(<<"b">>)>>) }

Obj_a_null == <<"{", "\"", "a", "\"", ":", "n", "u", "l", "l", "}">>

\* The answers of the AI service: a fenced object, a bare object with a
\* repeated key, an object whose value holds a fence, prose, the empty text,
\* an object with a number beyond the range of a double, the constant NaN;
\* and the two ways the call fails.
AiOutcomes ==
    { AiText(FenceJson \o <<"\n">> \o Obj_a_null \o <<"\n">> \o Fence),
      AiText(<<"{", "\"", "a", "\"", ":", "1", ",", "\"", "a", "\"", ":", "2", "}">>),
      AiText(<<"{", "\"", "a", "\"", ":", "\"">> \o Fence \o <<"x", "\"", "}">>),
      AiText(<<"S", "o", "r", "r", "y">>),
      AiText(<<>>),
      AiText(<<"{", "\"", "a", "\"", ":", "1", "e", "9", "9", "9", "}">>),
      AiText(Lit_NaN),
      AiRaises("503 Service Unavailable"),
      AiBlocked("response.text requires a valid Part") }

\* The pieces AI responses are assembled from in the study of the fences.
Pieces ==
    { <<Backtick>>, <<Backtick, Backtick>>, Fence, <<"j", "s", "o", "n">>,
      <<" ">>, <<"{", "}">> }

\* The texts made of exactly n pieces.
RECURSIVE TextsOf(_)
TextsOf(n) ==
    IF n = 0 THEN {<<>>}
    ELSE {p \o s : p \in Pieces, s \in TextsOf(n - 1)}

Texts == UNION {TextsOf(n) : n \in 0..MaxPieces}

PageValues == {NoText, PageOf(<<>>), PageOf(<<"a">>), PageOf(<<"b", "c">>)}

\* The files of the study of the text extractor: every PDF of up to MaxPages
\* pages, and a malformed file.
Files ==
    {Malformed("EOF marker not found")}
    \cup UNION {{Pdf(ps) : ps \in [1..n -> PageValues]} : n \in 0..MaxPages}

\* ------------------------------------------------------------------ state

VARIABLES
    environ,    \* GEMINI_API_KEY in the process environment
    dotenv,     \* GEMINI_API_KEY in the .env file
    proc,       \* "starting", "failed" (ValueError at import) or "serving"
    app,        \* app = FastAPI() has run: the routes exist
    loop,       \* the request whose handler holds the event loop, or Free
    pc,         \* per request: "idle", "pending", "reading", "generating", "done"
    pdf,        \* per request: the uploaded file
    sent,       \* per request: the prompts sent to the AI service, in order
    ai,         \* per request: what model.generate_content did
    caught,     \* per request: the exception `except Exception` caught
    resp,       \* per request: the response the client received
    cin,        \* fence study: the AI response
    cout1,      \* fence study: the post-processed response
    cout2,      \* fence study: the post-processed response, post-processed
    cpc,        \* fence study: "input", "once", "twice"
    tfile,      \* extractor study: the file
    tres,       \* extractor study: what extract_text_from_pdf gave
    tpc         \* extractor study: "input", "done"

svars == <<environ, dotenv, proc, app, loop, pc, pdf, sent, ai, caught, resp>>

cvars == <<cin, cout1, cout2, cpc>>

tvars == <<tfile, tres, tpc>>

vars == <<svars, cvars, tvars>>

NoAi == [kind |-> "none", msg |-> "", text |-> <<>>]

NoFile == Malformed("")

NoResult == [raised |-> FALSE, exc |-> NoExc, text |-> <<>>]

ServiceIdle ==
    /\ proc = "starting"
    /\ app = FALSE
    /\ loop = Free
    /\ pc = [r \in Reqs |-> "idle"]
    /\ pdf = [r \in Reqs |-> NoFile]
    /\ sent = [r \in Reqs |-> <<>>]
    /\ ai = [r \in Reqs |-> NoAi]
    /\ caught = [r \in Reqs |-> NoExc]
    /\ resp = [r \in Reqs |-> NoResponse]

CleanIdle == cin = <<>> /\ cout1 = <<>> /\ cout2 = <<>> /\ cpc = "input"

TextIdle == tfile = NoFile /\ tres = NoResult /\ tpc = "input"

\* ------------------------------------------------------------------ service

Init ==
    /\ environ \in KeyValues
    /\ dotenv \in KeyValues
    /\ ServiceIdle
    /\ CleanIdle
    /\ TextIdle

\* The key os.getenv("GEMINI_API_KEY") returns after load_dotenv().
GEMINI_API_KEY == load_dotenv(environ, dotenv)

\* Module import, lines 12-22: without a key ValueError is raised and the
\* import stops before app = FastAPI(); with one the server starts serving.
Startup ==
    /\ proc = "starting"
    /\ IF NotKey(GEMINI_API_KEY)
       THEN proc' = "failed" /\ app' = FALSE
       ELSE proc' = "serving" /\ app' = TRUE
    /\ UNCHANGED <<environ, dotenv, loop, pc, pdf, sent, ai, caught, resp>>
    /\ UNCHANGED <<cvars, tvars>>

\* A client posts a file to /extract-data/; the connection waits for the loop.
Send(r) ==
    /\ proc = "serving" /\ app
    /\ pc[r] = "idle"
    /\ \E file \in Uploads : pdf' = [pdf EXCEPT ![r] = file]
    /\ pc' = [pc EXCEPT ![r] = "pending"]
    /\ UNCHANGED <<environ, dotenv, proc, app, loop, sent, ai, caught, resp>>
    /\ UNCHANGED <<cvars, tvars>>

\* The loop starts the handler, which runs to `await pdf_file.read()`.
Begin(r) ==
    /\ loop = Free
    /\ pc[r] = "pending"
    /\ pc' = [pc EXCEPT ![r] = "reading"]
    /\ UNCHANGED <<environ, dotenv, proc, app, loop, pdf, sent, ai, caught, resp>>
    /\ UNCHANGED <<cvars, tvars>>

\* The step below with the call of the AI service made twice, whatever the
\* text.
ExtractTwice(r) ==
    /\ loop = Free
    /\ pc[r] = "reading"
    /\ LET b == BeforeGenerate(pdf[r])
       IN  /\ sent' = [sent EXCEPT ![r] = @ \o <<b.prompt, b.prompt>>]
           /\ pc' = [pc EXCEPT ![r] = "generating"]
           /\ loop' = r
           /\ UNCHANGED <<caught, resp>>
    /\ UNCHANGED <<environ, dotenv, proc, app, pdf, ai>>
    /\ UNCHANGED <<cvars, tvars>>

\* The loop resumes the handler after the read: lines 126-139 run on the loop
\* thread.  Either the handler ends with a response, or it enters the
\* synchronous call model.generate_content and keeps the loop.
Extract(r) ==
    /\ loop = Free
    /\ pc[r] = "reading"
    /\ LET b == BeforeGenerate(pdf[r])
       IN  IF b.call
           THEN /\ sent' = [sent EXCEPT ![r] = Append(@, b.prompt)]
                /\ pc' = [pc EXCEPT ![r] = "generating"]
                /\ loop' = r
                /\ UNCHANGED <<caught, resp>>
           ELSE /\ resp' = [resp EXCEPT ![r] = b.out.resp]
                /\ caught' = [caught EXCEPT ![r] = b.out.caught]
                /\ pc' = [pc EXCEPT ![r] = "done"]
                /\ UNCHANGED <<sent, loop>>
    /\ UNCHANGED <<environ, dotenv, proc, app, pdf, ai>>
    /\ UNCHANGED <<cvars, tvars>>

\* model.generate_content returns or raises, and the handler runs to its end
\* (lines 139-158) and releases the loop.
Generate(r) ==
    /\ loop = r
    /\ pc[r] = "generating"
    /\ \E o \in AiOutcomes : \E out \in {AfterGenerate(o)} :
        /\ ai' = [ai EXCEPT ![r] = o]
        /\ resp' = [resp EXCEPT ![r] = out.resp]
        /\ caught' = [caught EXCEPT ![r] = out.caught]
    /\ pc' = [pc EXCEPT ![r] = "done"]
    /\ loop' = Free
    /\ UNCHANGED <<environ, dotenv, proc, app, pdf, sent>>
    /\ UNCHANGED <<cvars, tvars>>

Next ==
    \/ Startup
    \/ \E r \in Reqs : Send(r)
    \/ \E r \in Reqs : Begin(r)
    \/ \E r \in Reqs : Extract(r)
    \/ \E r \in Reqs : Generate(r)

Spec == Init /\ [][Next]_vars

\* ------------------------------------------------------------------ fences

InitClean ==
    /\ environ = SetTo("key") /\ dotenv = Unset
    /\ ServiceIdle
    /\ cin \in Texts /\ cout1 = <<>> /\ cout2 = <<>> /\ cpc = "input"
    /\ TextIdle

\* The post-processing of line 144 applied to the AI response.
CleanOnce ==
    /\ cpc = "input"
    /\ cout1' = json_string(cin)
    /\ cpc' = "once"
    /\ UNCHANGED <<cin, cout2, svars, tvars>>

\* The post-processing applied to its own result.
CleanTwice ==
    /\ cpc = "once"
    /\ cout2' = json_string(cout1)
    /\ cpc' = "twice"
    /\ UNCHANGED <<cin, cout1, svars, tvars>>

NextClean == CleanOnce \/ CleanTwice

SpecClean == InitClean /\ [][NextClean]_vars

\* ------------------------------------------------------------------ extractor

InitText ==
    /\ environ = SetTo("key") /\ dotenv = Unset
    /\ ServiceIdle
    /\ CleanIdle
    /\ tfile \in Files /\ tres = NoResult /\ tpc = "input"

\* extract_text_from_pdf applied to the file.
ExtractText ==
    /\ tpc = "input"
    /\ tres' = extract_text_from_pdf(tfile)
    /\ tpc' = "done"
    /\ UNCHANGED <<tfile, svars, cvars>>

NextText == ExtractText

SpecText == InitText /\ [][NextText]_vars

\* ------------------------------------------------------------------ claims

Done(r) == pc[r] = "done"

\* The text a well-formed file holds: no page gives any.
NoPageText(file) ==
    \A i \in 1..Len(file.pages) : file.pages[i].none \/ file.pages[i].text = <<>>

\* C1: a request whose PDF parses but yields no text is answered with
\* status 400.
C1_EmptyTextIs400 ==
    \A r \in Reqs :
        Done(r) /\ pdf[r].wellformed /\ NoPageText(pdf[r]) => resp[r].status = 400

\* C2: a request whose AI response is, after the fences are removed, valid
\* JSON is answered with status 200, the parsed value as body and the
\* attachment header.
C2_ValidJsonIs200 ==
    \A r \in Reqs :
        Done(r) /\ ai[r].kind = "text" /\ Decode(json_string(ai[r].text), FALSE).ok
        => /\ resp[r].status = 200
           /\ resp[r].disposition = Disposition
           /\ Decode(resp[r].body, FALSE) = Decode(json_string(ai[r].text), FALSE)

\* C3: a request whose AI response is not JSON after the fences are removed
\* is answered with status 500 and the parse-failure message.
C3_ParseFailureMessage ==
    \A r \in Reqs :
        Done(r) /\ ai[r].kind = "text" /\ ~json_loads(json_string(ai[r].text)).ok
        => resp[r].status = 500 /\ resp[r].detail = ParseDetail

\* C4 as stated: post-processing its own output returns that output unchanged.
C4_Idempotent == cpc = "twice" => cout2 = cout1

\* C4 amended: post-processing its own output only trims it (so it is
\* unchanged when it has no leading or trailing whitespace), and the removal
\* of the fences alone changes nothing in it.
C4_IdempotentUpToTrim ==
    cpc = "twice" =>
        /\ cout2 = Strip(cout1)
        /\ (cout1 = Strip(cout1) => cout2 = cout1)
        /\ RemoveFences(cout1) = cout1

C4_Witness ==
    /\ cpc = "twice"
    /\ Contains(cin, FenceJson)
    /\ cout1 # Strip(cout1)
    /\ cout2 = Strip(cout1)

\* C5: a failure other than empty text and JSON parse failure (malformed
\* file, failing AI call, any other exception) is answered with status 500
\* and the message of the underlying error.
C5_OtherFailureIs500 ==
    \A r \in Reqs : Done(r) =>
        /\ ~pdf[r].wellformed
           => resp[r].status = 500 /\ resp[r].detail = pdf[r].err
        /\ ai[r].kind \in {"raises", "blocked"}
           => resp[r].status = 500 /\ resp[r].detail = ai[r].msg
        /\ caught[r].type \notin {"", "HTTPException"}
           => resp[r].status = 500 /\ resp[r].detail = caught[r].detail

C5_Witness ==
    \E r \in Reqs :
        /\ Done(r) /\ ai[r].kind = "raises"
        /\ caught[r].type = "GoogleAPIError"
        /\ resp[r].status = 500

\* The text of page i, the empty text for a page that gives none.
PageText(file, i) ==
    IF file.pages[i].none THEN <<>> ELSE file.pages[i].text

\* The length of the texts of the pages before page i.
RECURSIVE Offset(_, _)
Offset(file, i) ==
    IF i <= 1 THEN 0 ELSE Offset(file, i - 1) + Len(PageText(file, i - 1))

\* C6: for a well-formed PDF extract_text_from_pdf returns the texts of the
\* pages one after another in page order, nothing for a page without text;
\* the result is non-empty iff some page has text, and no error otherwise.
C6_ConcatenationInPageOrder ==
    tpc = "done" /\ tfile.wellformed =>
        LET n == Len(tfile.pages)
        IN  /\ ~tres.raised
            /\ Len(tres.text) = Offset(tfile, n + 1)
            /\ \A i \in 1..n :
                SubSeq(tres.text, Offset(tfile, i) + 1, Offset(tfile, i + 1))
                    = PageText(tfile, i)
            /\ (tres.text # <<>>) <=> ~NoPageText(tfile)

C6_Witness ==
    /\ tpc = "done" /\ tfile.wellformed
    /\ Len(tfile.pages) = 3
    /\ tfile.pages[2].none
    /\ tfile.pages[1].text # <<>> /\ tfile.pages[3].text # <<>>
    /\ tfile.pages[1].text # tfile.pages[3].text
    /\ tres.text = tfile.pages[1].text \o tfile.pages[3].text

\* C7: a request calls the AI service at most once: once when the PDF parses
\* and has text, never when it does not; a request that has its response made
\* that one call and no other.
C7_AtMostOneCall ==
    \A r \in Reqs :
        /\ Len(sent[r]) <= 1
        /\ pc[r] \in {"idle", "pending", "reading"} => sent[r] = <<>>
        /\ pc[r] = "generating" => Len(sent[r]) = 1
        /\ Done(r) =>
            Len(sent[r]) = IF pdf[r].wellformed /\ ~NoPageText(pdf[r]) THEN 1 ELSE 0
        /\ (ai[r].kind # "none") => Done(r) /\ Len(sent[r]) = 1

C7_Witness ==
    \E r, q \in Reqs :
        /\ Done(r) /\ ai[r].kind = "raises" /\ Len(sent[r]) = 1
        /\ Done(q) /\ pdf[q].wellformed /\ NoPageText(pdf[q]) /\ sent[q] = <<>>

\* C8: if the key is missing or empty at startup, initialization fails before
\* the application and its routes exist and no request is ever served; a
\* request is handled only where the key was present at startup.
C8_NoKeyNoService ==
    /\ (proc # "starting" /\ (~GEMINI_API_KEY.set \/ GEMINI_API_KEY.val = ""))
       => /\ proc = "failed" /\ ~app
          /\ \A r \in Reqs : pc[r] = "idle" /\ resp[r] = NoResponse
    /\ (\E r \in Reqs : pc[r] # "idle")
       => proc = "serving" /\ app /\ GEMINI_API_KEY.set /\ GEMINI_API_KEY.val # ""

C8_Witness ==
    /\ proc = "failed"
    /\ environ = SetTo("") /\ dotenv = SetTo("key")

\* C9: the text handed to the JSON parser holds no fence, tagged or not, also
\* when removing a tagged fence joins backticks into a new fence.
C9_NoFenceLeft ==
    cpc # "input" => ~Contains(cout1, Fence) /\ ~Contains(cout1, FenceJson)

C9_Witness ==
    /\ cpc = "once"
    /\ cin = <<Backtick, Backtick>> \o FenceJson \o <<Backtick>>
    /\ Replace(Strip(cin), FenceJson) = Fence
    /\ cout1 = <<>>

\* C10: while a request waits for its AI call, the other requests that have
\* work to do can take their next step.
C10_OthersProgress ==
    \A r, q \in Reqs :
        pc[r] = "generating" /\ pc[q] \in {"pending", "reading"}
        => ENABLED (Begin(q) \/ Extract(q))

====
